---- MODULE Spec2Model ----
(***************************************************************************)
(* Model of global-search (src/main.rs): a tantivy index built once from   *)
(* four mdBook corpora and served over HTTP by an actix SyncArbiter pool   *)
(* of QueryExecutor workers.                                               *)
(*                                                                         *)
(* Spec is the serve phase: the dispatcher `query`, the pool's shared       *)
(* mailbox, the eight QueryExecutor workers with their own TopCollector,   *)
(* and Handler<SearchQuery>::handle.  BuildSpec is a whole run: the corpus *)
(* loop, the commit, the start of the pool and of the server, and then the *)
(* serve phase.  PoolSpec is the serve phase under load, with fairness.    *)
(***************************************************************************)
EXTENDS Bags, FiniteSets, Integers, Sequences, TLC

(***************************************************************************)
(* Bounds of the model.                                                    *)
(***************************************************************************)
\* Number of HTTP requests that arrive in one run.
MaxRequests == 2
\* Number of segments the committed index is split into.
NumSegments == 2
\* Number of HTTP requests that arrive in one run that starts with the build.
MaxBuildRequests == 1
\* Number of requests beyond the number of workers in a run under load.
ExtraRequests == 1

(***************************************************************************)
(* Program constants.                                                      *)
(***************************************************************************)
\* SyncArbiter::start(8, ...)
NumWorkers == 8
\* The limit set one too high.
LimitOffByOne == 10 + 1
\* TopCollector::with_limit(10)
Limit == 10
\* HttpResponse::Ok()
StatusOk == 200
\* HttpResponse::InternalServerError()
StatusInternalServerError == 500

(***************************************************************************)
(* The corpora.  A text value is a sequence of words; the tokenizer of a   *)
(* TEXT field yields exactly these words.                                  *)
(***************************************************************************)
books == <<"book/first-edition", "book/second-edition", "nomicon", "rust-by-example">>

\* Document references of one corpus, in the iteration order of docstore.docs.
DocRefs == <<"ch01", "ch02", "ch03">>

\* A word that occurs only in the documents of one corpus.
BookWord == <<"alpha", "beta", "gamma", "delta">>

\* The record of document reference number j in corpus number b.
DocFields(b, j) ==
    [title       |-> <<"chapter">>,
     breadcrumbs |-> <<BookWord[b]>>,
     body        |-> [i \in 1..j |-> "rust"]]

\* The corpus path and the document reference put into each other's field.
IndexedDocumentSwapped(b, j) ==
    [book        |-> DocRefs[j],
     section     |-> books[b],
     title       |-> DocFields(b, j).title,
     breadcrumbs |-> DocFields(b, j).breadcrumbs,
     body        |-> DocFields(b, j).body]

\* doc!(book => path, section => doc_ref, title => ..., breadcrumbs => ..., body => ...)
IndexedDocument(b, j) ==
    [book        |-> books[b],
     section     |-> DocRefs[j],
     title       |-> DocFields(b, j).title,
     breadcrumbs |-> DocFields(b, j).breadcrumbs,
     body        |-> DocFields(b, j).body]

\* The documents the corpus loop adds for corpus b, in order.
BookDocuments(b) == [j \in 1..Len(DocRefs) |-> IndexedDocument(b, j)]

RECURSIVE AddBooks(_)
\* The index after the corpus loop has run over books[1..n] (all with save = true).
AddBooks(n) == IF n = 0 THEN <<>> ELSE AddBooks(n - 1) \o BookDocuments(n)

\* The committed index: document address a is position a of the sequence.
CommittedIndex == AddBooks(Len(books))

(***************************************************************************)
(* Query parser.  A raw query string is a sequence of tokens.              *)
(***************************************************************************)
RawQueries ==
    { <<"rust">>, <<"alpha">>, <<"beta">>, <<"nonexistenttermxyz">>, <<"(", "rust">> }

RECURSIVE Depth(_)
\* Nesting depth at the end of the raw query (open minus closed parentheses).
Depth(raw) ==
    IF raw = <<>> THEN 0
    ELSE LET rest == Depth(SubSeq(raw, 1, Len(raw) - 1))
             t    == raw[Len(raw)]
         IN  IF t = "(" THEN rest + 1 ELSE IF t = ")" THEN rest - 1 ELSE rest

IsWord(t) == t \notin {"(", ")"}

\* query_parser.parse_query(&msg.query): the terms of the query, or a parse error.
ParseQuery(raw) ==
    IF Depth(raw) # 0 \/ SelectSeq(raw, IsWord) = <<>>
    THEN [ok |-> FALSE, terms |-> <<>>]
    ELSE [ok |-> TRUE, terms |-> SelectSeq(raw, IsWord)]

(***************************************************************************)
(* Scoring over the default fields title, breadcrumbs, body.               *)
(***************************************************************************)
RECURSIVE Count(_, _)
\* Number of occurrences of word w in text.
Count(w, text) ==
    IF text = <<>> THEN 0
    ELSE (IF Head(text) = w THEN 1 ELSE 0) + Count(w, Tail(text))

\* Term frequency of w in the three default search fields of doc.
TermFreq(w, doc) == Count(w, doc.title) + Count(w, doc.breadcrumbs) + Count(w, doc.body)

RECURSIVE Score(_, _)
\* Relevance score of doc for the parsed query; 0 means the document does not match.
Score(terms, doc) ==
    IF terms = <<>> THEN 0
    ELSE TermFreq(Head(terms), doc) + Score(Tail(terms), doc)

\* Addresses of the documents of idx matching the query.
Matches(idx, terms) == {a \in 1..Len(idx) : Score(terms, idx[a]) > 0}

(***************************************************************************)
(* TopCollector: the ranked entries it holds, best first, at most Limit.   *)
(***************************************************************************)
\* TopCollector::with_limit(10)
NewCollector == <<>>

\* Number of leading entries of c whose score is at least s.
RankOf(c, s) == Cardinality({i \in 1..Len(c) : c[i].score >= s})

\* Entry e placed behind the entries that score at least as much.
Insert(c, e) ==
    SubSeq(c, 1, RankOf(c, e.score)) \o <<e>> \o SubSeq(c, RankOf(c, e.score) + 1, Len(c))

\* collector.collect(doc, score): below the limit the entry is added; at the
\* limit it replaces the lowest entry when it scores strictly higher.
Collect(c, a, s) ==
    IF Len(c) >= Limit
    THEN IF c[Len(c)].score < s
         THEN Insert(SubSeq(c, 1, Len(c) - 1), [score |-> s, doc |-> a])
         ELSE c
    ELSE Insert(c, [score |-> s, doc |-> a])

\* collector.docs(): the addresses held, in ranked order.
Docs(c) == [i \in 1..Len(c) |-> c[i].doc]

(***************************************************************************)
(* Searcher.                                                               *)
(***************************************************************************)
\* Segment holding document address a (segments are contiguous address ranges).
SegmentOf(idx, a) == 1 + ((a - 1) * NumSegments) \div Len(idx)

RECURSIVE CollectUpTo(_, _, _, _, _)
\* The collector after the scorer has fed it the matching documents with
\* address <= a whose segment is below `stop`, in ascending address order.
CollectUpTo(idx, terms, c, a, stop) ==
    IF a = 0 THEN c
    ELSE LET before == CollectUpTo(idx, terms, c, a - 1, stop)
         IN  IF Score(terms, idx[a]) > 0 /\ SegmentOf(idx, a) < stop
             THEN Collect(before, a, Score(terms, idx[a]))
             ELSE before

\* searcher.search(&*query, &mut self.collector): every segment in turn is fed
\* to the collector it is given.  failAt = 0: the search succeeds; failAt = s:
\* opening segment s fails, after the segments before s were collected.
Search(idx, terms, c, failAt) ==
    [ok        |-> failAt = 0,
     collector |-> CollectUpTo(idx, terms, c, Len(idx),
                               IF failAt = 0 THEN NumSegments + 1 ELSE failAt)]

(***************************************************************************)
(* Serialization.                                                          *)
(***************************************************************************)
RECURSIVE JoinWords(_)
\* The stored text value: the words separated by single spaces.
JoinWords(text) ==
    IF text = <<>> THEN ""
    ELSE IF Len(text) = 1 THEN text[1]
    ELSE text[1] \o " " \o JoinWords(Tail(text))

\* schema.to_json(&retrieved_doc): the stored fields of the document.
ToJson(doc) ==
    "{book:" \o doc.book \o ",section:" \o doc.section
        \o ",title:" \o JoinWords(doc.title)
        \o ",breadcrumbs:" \o JoinWords(doc.breadcrumbs)
        \o ",body:" \o JoinWords(doc.body) \o "}"

\* The pop left out: the body keeps its last character.
PopNothing(body) == body

\* response_body.pop(): the last character is removed.  A body is kept as a
\* sequence of pieces; its last piece is "[" or "," when pop is called.
Pop(body) == IF body = <<>> THEN <<>> ELSE SubSeq(body, 1, Len(body) - 1)

RECURSIVE PushDocs(_, _, _)
\* The loop over doc_addresses: each document's JSON and a comma are appended.
PushDocs(idx, body, addrs) ==
    IF addrs = <<>> THEN body
    ELSE PushDocs(idx, body \o <<ToJson(idx[Head(addrs)]), ",">>, Tail(addrs))

\* The body built by handle from the collector's documents.
ResponseBody(idx, addrs) == Pop(PushDocs(idx, <<"[">>, addrs)) \o <<"]", "\n">>

(***************************************************************************)
(* Handler<SearchQuery>::handle.                                           *)
(***************************************************************************)
\* What the environment does to one execution: failAt as in Search, docFails:
\* searcher.doc(&doc_address) fails on a retrieved document.
Envs == [failAt : 0..NumSegments, docFails : BOOLEAN]

OkResult(body) == [kind |-> "Ok", body |-> body]
ErrResult      == [kind |-> "Err", body |-> <<>>]
MailboxError   == [kind |-> "MailboxError", body |-> <<>>]

\* handle(&mut self, msg): the result sent back and the worker's collector
\* afterwards.
Handle(idx, collector, raw, env) ==
    LET parsed == ParseQuery(raw)
        found  == Search(idx, parsed.terms, collector, env.failAt)
    IN  IF ~parsed.ok
        THEN [result |-> ErrResult, collector |-> collector]
        ELSE IF ~found.ok
        THEN [result |-> ErrResult, collector |-> found.collector]
        ELSE IF env.docFails /\ Docs(found.collector) # <<>>
        THEN [result |-> ErrResult, collector |-> found.collector]
        ELSE [result    |-> OkResult(ResponseBody(idx, Docs(found.collector))),
              collector |-> found.collector]

(***************************************************************************)
(* State.                                                                  *)
(***************************************************************************)
VARIABLES
    index,      \* the committed index behind Arc<tantivy::Index>
    idle,       \* bag of the collectors of the workers waiting for a message
    busy,       \* request id -> collector of the worker that took its message
    requests,   \* request id -> the request as it arrived
    mailbox,    \* SearchQuery messages sent to the pool and not yet taken
    replies,    \* request id -> result of the send future, not yet mapped
    responses,  \* request id -> the HTTP response
    pc,         \* the statement of run() that is next, or "failed": run returned Err
    corpus,     \* position in `books` of the corpus the loop processes next
    saves,      \* corpus position -> the save flag of its document store
    writer,     \* documents added to index_writer
    commits,    \* number of index_writer.commit() calls so far
    failed,     \* positions of the corpora whose build, read or parse failed
    listening   \* the HTTP listener is bound

serveVars == <<index, idle, busy, requests, mailbox, replies, responses>>
buildVars == <<pc, corpus, saves, writer, commits, failed, listening>>
vars == <<serveVars, buildVars>>

\* The `query` URL parameter of a request: absent, or a raw query string.
NoParam == [present |-> FALSE, query |-> <<>>]

\* Requests that have arrived and are not answered yet.
Pending == DOMAIN requests \ DOMAIN responses

\* f without the key k.
Without(f, k) == [x \in DOMAIN f \ {k} |-> f[x]]

\* Ok(resp) => HttpResponse::Ok().content_type("application/json").body(resp)
OkResponse(body) ==
    [status |-> StatusOk, reason |-> "OK", contentType |-> "application/json",
     body |-> body]

\* HttpResponse::InternalServerError().reason(reason).finish()
ErrorResponse(reason) ==
    [status |-> StatusInternalServerError, reason |-> reason, contentType |-> "",
     body |-> <<>>]

\* The missing parameter reported with the reason of the other error branch.
MissingParamWrongReason == ErrorResponse("Error executing search query")

\* The else branch of `query`: no query parameter.
MissingParamResponse == ErrorResponse("Unable to find query URL parameter")

\* Err(_) => InternalServerError "Error executing search query"
SearchErrorResponse == ErrorResponse("Error executing search query")

\* from_err(): a MailboxError becomes an actix_web::Error, which the framework
\* renders as its default error response.
MailboxErrorResponse == ErrorResponse("Internal Server Error")

\* The match arms of the closure swapped: a handler error answered like Ok.
MapResultErrAsOk(res) ==
    IF res.kind = "Ok" THEN SearchErrorResponse
    ELSE IF res.kind = "Err" THEN OkResponse(res.body)
    ELSE MailboxErrorResponse

\* The mailbox error swallowed: every result that is no handler error is Ok.
MapResultMailboxAsOk(res) ==
    IF res.kind = "Err" THEN SearchErrorResponse ELSE OkResponse(res.body)

\* The and_then closure of `query` and the responder: the result of the send
\* future mapped to the HTTP response.
MapResult(res) ==
    IF res.kind = "Ok" THEN OkResponse(res.body)
    ELSE IF res.kind = "Err" THEN SearchErrorResponse
    ELSE MailboxErrorResponse

\* SyncArbiter::start(8, move || QueryExecutor { ..., collector: with_limit(10) })
StartPool == SetToBag({NewCollector}) (+) [c \in {NewCollector} |-> NumWorkers - 1]

\* The state once run() has built the index of all four corpora (each with
\* save = true), started the pool and the server, and sits in sys.run().
Init ==
    /\ index = CommittedIndex
    /\ idle = StartPool
    /\ busy = <<>>
    /\ requests = <<>>
    /\ mailbox = <<>>
    /\ replies = <<>>
    /\ responses = <<>>
    /\ pc = "serving"
    /\ corpus = Len(books) + 1
    /\ saves = [b \in 1..Len(books) |-> TRUE]
    /\ writer = CommittedIndex
    /\ commits = 1
    /\ failed = {}
    /\ listening = TRUE

\* query(req) without a `query` parameter, as one of at most `limit` requests:
\* answered at once.
MissingParamArrives(limit) ==
    /\ pc = "serving"
    /\ Len(requests) < limit
    /\ requests' = Append(requests, [param |-> NoParam])
    /\ responses' = responses @@ (Len(requests) + 1 :> MissingParamResponse)
    /\ UNCHANGED <<index, idle, busy, mailbox, replies>>
    /\ UNCHANGED buildVars

\* query(req) with a `query` parameter out of `queries`, as one of at most
\* `limit` requests: searcher.send(SearchQuery { query }).
QueryArrives(limit, queries) ==
    /\ pc = "serving"
    /\ Len(requests) < limit
    /\ \E q \in queries :
          requests' = Append(requests, [param |-> [present |-> TRUE, query |-> q]])
    /\ mailbox' = Append(mailbox, Len(requests) + 1)
    /\ UNCHANGED <<index, idle, busy, replies, responses>>
    /\ UNCHANGED buildVars

QueryMissingParam == MissingParamArrives(MaxRequests)

QuerySend == QueryArrives(MaxRequests, RawQueries)

\* The send future resolves to a MailboxError: the message is dropped unhandled.
SendFails ==
    /\ mailbox # <<>>
    /\ \E i \in 1..Len(mailbox) :
          /\ mailbox' = SubSeq(mailbox, 1, i - 1) \o SubSeq(mailbox, i + 1, Len(mailbox))
          /\ replies' = replies @@ (mailbox[i] :> MailboxError)
    /\ UNCHANGED <<index, idle, busy, requests, responses>>
    /\ UNCHANGED buildVars

\* A worker takes the next message while it is still counted as idle.
WorkerTakeWhileBusy ==
    /\ mailbox # <<>>
    /\ \E c \in BagToSet(idle) : busy' = busy @@ (Head(mailbox) :> c)
    /\ mailbox' = Tail(mailbox)
    /\ UNCHANGED <<index, idle, requests, replies, responses>>
    /\ UNCHANGED buildVars

\* An idle worker takes the next message of the pool's queue.
WorkerTake ==
    /\ mailbox # <<>>
    /\ \E c \in BagToSet(idle) :
          /\ idle' = idle (-) SetToBag({c})
          /\ busy' = busy @@ (Head(mailbox) :> c)
    /\ mailbox' = Tail(mailbox)
    /\ UNCHANGED <<index, requests, replies, responses>>
    /\ UNCHANGED buildVars

\* The worker runs handle and the result is never sent back.
WorkerHandlesNoReply(envs) ==
    \E r \in DOMAIN busy, env \in envs :
       LET out == Handle(index, busy[r], requests[r].param.query, env)
       IN  /\ idle' = idle (+) SetToBag({out.collector})
           /\ busy' = Without(busy, r)
           /\ UNCHANGED <<index, requests, mailbox, replies, responses>>
           /\ UNCHANGED buildVars

\* The worker runs handle to completion, in an environment out of `envs`, and
\* sends the result back.
WorkerHandles(envs) ==
    \E r \in DOMAIN busy, env \in envs :
       LET out == Handle(index, busy[r], requests[r].param.query, env)
       IN  /\ idle' = idle (+) SetToBag({out.collector})
           /\ busy' = Without(busy, r)
           /\ replies' = replies @@ (r :> out.result)
           /\ UNCHANGED <<index, requests, mailbox, responses>>
           /\ UNCHANGED buildVars

WorkerHandle == WorkerHandles(Envs)

\* The dispatcher's future completes: the request is answered.
Respond ==
    \E r \in DOMAIN replies :
       /\ responses' = responses @@ (r :> MapResult(replies[r]))
       /\ replies' = Without(replies, r)
       /\ UNCHANGED <<index, idle, busy, requests, mailbox>>
       /\ UNCHANGED buildVars

Next ==
    \/ QueryMissingParam
    \/ QuerySend
    \/ SendFails
    \/ WorkerTake
    \/ WorkerHandle
    \/ Respond

Spec == Init /\ [][Next]_vars

(***************************************************************************)
(* The build phase of run() and the start of the service.                  *)
(***************************************************************************)
\* The pool and the server started ahead of the corpus loop.
StagesPoolFirst == <<"pool", "bind", "serving", "loop", "commit", "load">>

\* The statements of run() in program order: the corpus loop, commit(),
\* load_searchers(), SyncArbiter::start, HttpServer bind and start, sys.run().
Stages == <<"loop", "commit", "load", "pool", "bind", "serving">>

\* The statement that follows stage p.
NextStage(p) == Stages[(CHOOSE i \in 1..Len(Stages) : Stages[i] = p) + 1]

\* The loop left one corpus early.
LoopDoneEarly(i) == i >= Len(books)

\* for path in &books: the loop is over once every corpus has had its turn.
LoopDone(i) == i > Len(books)

\* The save flag ignored: the documents are added whatever it says.
DocumentsIgnoringSave(b, save) == BookDocuments(b)

\* if !docstore.save { continue; }, else one document per entry of docstore.docs.
DocumentsToAdd(b, save) == IF ~save THEN <<>> ELSE BookDocuments(b)

\* The documents committed as soon as they are added.
AddAndCommit(w, idx, n, docs) ==
    [writer |-> w \o docs, index |-> w \o docs, commits |-> n + 1]

\* index_writer.add_document for each of docs: they are held by the writer;
\* the committed index is not touched.
AddDocuments(w, idx, n, docs) ==
    [writer |-> w \o docs, index |-> idx, commits |-> n]

\* The error of a corpus logged and the loop continued.
OnCorpusErrorContinue(i) ==
    [pc |-> IF LoopDone(i + 1) THEN NextStage("loop") ELSE "loop", corpus |-> i + 1]

\* The `?` on MDBook::load, build, File::open, read_to_string and the two
\* serde_json calls: run returns the error.
OnCorpusError(i) == [pc |-> "failed", corpus |-> i]

\* The state when run() is entered: the index created empty, no pool, no server.
BuildInit ==
    /\ index = <<>>
    /\ idle = EmptyBag
    /\ busy = <<>>
    /\ requests = <<>>
    /\ mailbox = <<>>
    /\ replies = <<>>
    /\ responses = <<>>
    /\ pc = Stages[1]
    /\ corpus = 1
    /\ saves \in [1..Len(books) -> BOOLEAN]
    /\ writer = <<>>
    /\ commits = 0
    /\ failed = {}
    /\ listening = FALSE

\* One turn of the corpus loop in which the document store is obtained: its
\* documents are added, or it is skipped because save is false.
ProcessCorpus ==
    /\ pc = "loop"
    /\ ~LoopDone(corpus)
    /\ LET after == AddDocuments(writer, index, commits,
                                 DocumentsToAdd(corpus, saves[corpus]))
       IN  /\ writer' = after.writer
           /\ index' = after.index
           /\ commits' = after.commits
    /\ corpus' = corpus + 1
    /\ pc' = IF LoopDone(corpus + 1) THEN NextStage(pc) ELSE pc
    /\ UNCHANGED <<idle, busy, requests, mailbox, replies, responses>>
    /\ UNCHANGED <<saves, failed, listening>>

\* One turn of the corpus loop in which building, reading or parsing fails.
CorpusFails ==
    /\ pc = "loop"
    /\ ~LoopDone(corpus)
    /\ failed' = failed \cup {corpus}
    /\ pc' = OnCorpusError(corpus).pc
    /\ corpus' = OnCorpusError(corpus).corpus
    /\ UNCHANGED serveVars
    /\ UNCHANGED <<saves, writer, commits, listening>>

\* index_writer.commit()?
Commit ==
    /\ pc = "commit"
    /\ index' = writer
    /\ commits' = commits + 1
    /\ pc' = NextStage(pc)
    /\ UNCHANGED <<idle, busy, requests, mailbox, replies, responses>>
    /\ UNCHANGED <<corpus, saves, writer, failed, listening>>

\* search_index.load_searchers()?
LoadSearchers ==
    /\ pc = "load"
    /\ pc' = NextStage(pc)
    /\ UNCHANGED serveVars
    /\ UNCHANGED <<corpus, saves, writer, commits, failed, listening>>

\* SyncArbiter::start(8, ...): the eight workers exist from here on.
PoolStarts ==
    /\ pc = "pool"
    /\ idle' = StartPool
    /\ pc' = NextStage(pc)
    /\ UNCHANGED <<index, busy, requests, mailbox, replies, responses>>
    /\ UNCHANGED <<corpus, saves, writer, commits, failed, listening>>

\* HttpServer::new(..).bind("127.0.0.1:8080")?.start(), then sys.run().
Bind ==
    /\ pc = "bind"
    /\ listening' = TRUE
    /\ pc' = NextStage(pc)
    /\ UNCHANGED serveVars
    /\ UNCHANGED <<corpus, saves, writer, commits, failed>>

\* The `?` on commit, load_searchers or bind: run returns the error.
StartupFails ==
    /\ pc \in {"commit", "load", "bind"}
    /\ pc' = "failed"
    /\ UNCHANGED serveVars
    /\ UNCHANGED <<corpus, saves, writer, commits, failed, listening>>

BuildQueryMissingParam == MissingParamArrives(MaxBuildRequests)

BuildQuerySend == QueryArrives(MaxBuildRequests, RawQueries)

BuildNext ==
    \/ ProcessCorpus
    \/ CorpusFails
    \/ Commit
    \/ LoadSearchers
    \/ PoolStarts
    \/ Bind
    \/ StartupFails
    \/ BuildQueryMissingParam
    \/ BuildQuerySend
    \/ SendFails
    \/ WorkerTake
    \/ WorkerHandle
    \/ Respond

BuildSpec == BuildInit /\ [][BuildNext]_vars

(***************************************************************************)
(* The serve phase under load: more requests than workers.  The requests   *)
(* carry the same query, no send and no execution fails, so that only the  *)
(* scheduling of the pool varies.                                          *)
(***************************************************************************)
\* Number of requests of one run under load.
PoolRequests == NumWorkers + ExtraRequests

\* An execution in which nothing fails.
NoFailure == [failAt |-> 0, docFails |-> FALSE]

\* The first request of a run may lack the parameter.
PoolQueryMissingParam == MissingParamArrives(1)

PoolQuerySend == QueryArrives(PoolRequests, {<<"nonexistenttermxyz">>})

PoolWorkerHandle == WorkerHandles({NoFailure})

PoolNext ==
    \/ PoolQueryMissingParam
    \/ PoolQuerySend
    \/ WorkerTake
    \/ PoolWorkerHandle
    \/ Respond

\* The worker threads block on the pool's queue and run whenever a message is
\* there; an execution terminates; the event loop polls a completed future.
PoolFairness ==
    /\ WF_vars(WorkerTake)
    /\ WF_vars(PoolWorkerHandle)
    /\ WF_vars(Respond)

\* The save flags of the run under load: no corpus has a document store to index.
PoolSaves == [b \in 1..Len(books) |-> FALSE]

RECURSIVE IndexOf(_, _)
\* The index the corpus loop builds over books[1..n] with the save flags sv.
IndexOf(sv, n) ==
    IF n = 0 THEN <<>> ELSE IndexOf(sv, n - 1) \o DocumentsToAdd(n, sv[n])

\* The state in sys.run() of a run whose document stores had the flags PoolSaves.
PoolInit ==
    /\ index = IndexOf(PoolSaves, Len(books))
    /\ idle = StartPool
    /\ busy = <<>>
    /\ requests = <<>>
    /\ mailbox = <<>>
    /\ replies = <<>>
    /\ responses = <<>>
    /\ pc = "serving"
    /\ corpus = Len(books) + 1
    /\ saves = PoolSaves
    /\ writer = IndexOf(PoolSaves, Len(books))
    /\ commits = 1
    /\ failed = {}
    /\ listening = TRUE

PoolSpec == PoolInit /\ [][PoolNext]_vars /\ PoolFairness

(***************************************************************************)
(* Vocabulary of the properties.                                           *)
(***************************************************************************)
\* Requests answered 200.
Succeeded == {r \in DOMAIN responses : responses[r].status = 200}

\* The parsed terms of request r's query.
TermsOf(r) == ParseQuery(requests[r].param.query).terms

\* The serialized documents of a body, in order (the punctuation left out).
IsDocJson(piece) == piece \notin {"[", ",", "]", "\n"}
BodyDocs(body) == SelectSeq(body, IsDocJson)

\* The address of the indexed document a JSON piece serializes.
AddressOf(json) == CHOOSE a \in 1..Len(index) : ToJson(index[a]) = json

\* The addresses of the documents in the response to r, in order.
ResultDocs(r) ==
    [i \in 1..Len(BodyDocs(responses[r].body)) |-> AddressOf(BodyDocs(responses[r].body)[i])]

\* Request o arrived before r and is still pending: the two were pending at
\* the same time (request ids are given in order of arrival).
Concurrent(r, o) == o < r /\ o \in Pending

(***************************************************************************)
(* C1: a query that parses and executes successfully but matches no        *)
(* document is answered 200 with the body "[]\n".                          *)
(***************************************************************************)
C1_EmptyResultBody ==
    \A r \in Succeeded :
       Matches(index, TermsOf(r)) = {} => responses[r].body = <<"[", "]", "\n">>

(***************************************************************************)
(* C2: when a worker starts handle, its collector holds nothing collected  *)
(* by an earlier query, and the documents returned for a query are only    *)
(* documents that query matches.                                           *)
(***************************************************************************)
C2_CollectorClean ==
    /\ \A r \in DOMAIN busy : busy[r] = <<>>
    /\ \A r \in Succeeded :
          \A i \in 1..Len(ResultDocs(r)) : ResultDocs(r)[i] \in Matches(index, TermsOf(r))

(***************************************************************************)
(* C3: two successful responses to the same raw query string carry the     *)
(* same ordered list of documents, whatever was handled before or between. *)
(***************************************************************************)
C3_Deterministic ==
    \A r, o \in Succeeded :
       requests[r].param.query = requests[o].param.query
          => ResultDocs(r) = ResultDocs(o)

(***************************************************************************)
(* C4: of distinct queries submitted concurrently whose matching sets are  *)
(* disjoint, no response contains a document of another one's matching set.*)
(***************************************************************************)
C4_NoCrossTalk ==
    \A r \in Succeeded : \A o \in DOMAIN requests \ {r} :
       (/\ Concurrent(r, o)
        /\ requests[o].param.present
        /\ ParseQuery(requests[o].param.query).ok
        /\ requests[o].param.query # requests[r].param.query
        /\ Matches(index, TermsOf(r)) \cap Matches(index, TermsOf(o)) = {})
       => \A i \in 1..Len(ResultDocs(r)) : ResultDocs(r)[i] \notin Matches(index, TermsOf(o))

(***************************************************************************)
(* C5: a successful response contains at most 10 documents.                *)
(***************************************************************************)
C5_AtMostTen == \A r \in Succeeded : Len(BodyDocs(responses[r].body)) <= 10

\* A query matching more than 10 documents was answered with exactly 10.
C5_Witness ==
    \E r \in Succeeded :
       /\ Cardinality(Matches(index, TermsOf(r))) > 10
       /\ Len(BodyDocs(responses[r].body)) = 10

(***************************************************************************)
(* C6: the documents of a successful response are in non-increasing order  *)
(* of their relevance score for that request's query.                      *)
(***************************************************************************)
C6_RankedOrder ==
    \A r \in Succeeded : \A i, j \in 1..Len(ResultDocs(r)) :
       i < j => Score(TermsOf(r), index[ResultDocs(r)[i]])
                   >= Score(TermsOf(r), index[ResultDocs(r)[j]])

(***************************************************************************)
(* C7: a request without a `query` parameter is answered 500 with the      *)
(* reason "Unable to find query URL parameter".                            *)
(***************************************************************************)
C7_MissingParam ==
    \A r \in DOMAIN requests :
       ~requests[r].param.present
          => /\ r \in DOMAIN responses
             /\ responses[r].status = 500
             /\ responses[r].reason = "Unable to find query URL parameter"

\* A request without the parameter has arrived, next to one with it.
C7_Witness ==
    \E r, o \in DOMAIN requests :
       /\ ~requests[r].param.present
       /\ r \in DOMAIN responses
       /\ requests[o].param.present

(***************************************************************************)
(* C8: when handle returned an error, the dispatcher answers that request  *)
(* 500 with the reason "Error executing search query" and no body.         *)
(***************************************************************************)
C8_HandlerError ==
    [][\A r \in DOMAIN replies :
          (replies[r].kind = "Err" /\ r \in DOMAIN responses')
             => /\ responses'[r].status = 500
                /\ responses'[r].reason = "Error executing search query"
                /\ responses'[r].body = <<>>]_vars

\* A query that parses was executed, failed, and its request was answered.
C8_Witness ==
    \E r \in DOMAIN responses :
       /\ requests[r].param.present
       /\ ParseQuery(requests[r].param.query).ok
       /\ responses[r].reason = "Error executing search query"

(***************************************************************************)
(* C9: a request that ends in an error leaves no trace: when every other   *)
(* request ended in an error, a successful request gets the response it    *)
(* gets when it is the only request ever submitted.                        *)
(***************************************************************************)
C9_ErrorIsolation ==
    \A r \in Succeeded :
       (\A o \in DOMAIN requests \ {r} :
           o \in DOMAIN responses /\ responses[o].status = 500)
       => responses[r]
             = MapResult(Handle(index, NewCollector, requests[r].param.query, NoFailure).result)

(***************************************************************************)
(* C10: when the send future resolves to a mailbox error, the request is   *)
(* answered with a server error: status 500, no body.                      *)
(***************************************************************************)
C10_MailboxError ==
    [][\A r \in DOMAIN replies :
          replies[r].kind = "MailboxError"
             => /\ ENABLED Respond
                /\ r \in DOMAIN responses'
                      => responses'[r].status = 500 /\ responses'[r].body = <<>>]_vars

\* A request whose message was never handled has been answered.
C10_Witness ==
    \E r \in DOMAIN responses :
       /\ requests[r].param.present
       /\ responses[r].reason = "Internal Server Error"

(***************************************************************************)
(* Vocabulary of the properties of the build phase.                        *)
(***************************************************************************)
\* Positions in docs of the documents whose book field is corpus b's path.
OfBook(docs, b) == {a \in 1..Len(docs) : docs[a].book = books[b]}

\* Positions in docs of the documents for reference j of corpus b.
OfRecord(docs, b, j) == {a \in OfBook(docs, b) : docs[a].section = DocRefs[j]}

\* The corpus loop is over, the index committed and the searchers loaded.
BuildFinished ==
    /\ corpus = Len(books) + 1
    /\ commits = 1
    /\ pc \in {"pool", "bind", "serving", "failed"}

(***************************************************************************)
(* C11: a corpus with save = false adds no document; the loop goes on, the *)
(* later corpora are indexed and committed, and the service starts.        *)
(***************************************************************************)
C11_SkippedCorpus ==
    /\ \A b \in 1..Len(books) :
          ~saves[b] => OfBook(writer, b) = {} /\ OfBook(index, b) = {}
    /\ \A b \in 1..Len(books) :
          (saves[b] /\ b < corpus) => Cardinality(OfBook(writer, b)) = Len(DocRefs)
    /\ pc = "serving"
          => /\ listening
             /\ \A b \in 1..Len(books) :
                   saves[b] => Cardinality(OfBook(index, b)) = Len(DocRefs)

\* The service runs and has answered a request; a corpus was skipped and a
\* later one is in the committed index.
C11_Witness ==
    /\ pc = "serving"
    /\ responses # <<>>
    /\ \E b, c \in 1..Len(books) :
          b < c /\ ~saves[b] /\ saves[c] /\ OfBook(index, c) # {}

(***************************************************************************)
(* C12: when the document collection of a corpus fails to build, read or   *)
(* parse, run returns the error: the pool is never started, the listener   *)
(* never bound and no request served.                                      *)
(***************************************************************************)
C12_FailFast ==
    failed # {}
       => /\ pc = "failed"
          /\ idle = EmptyBag
          /\ ~listening
          /\ requests = <<>>
          /\ responses = <<>>

\* A corpus in the middle of the list failed after an earlier one was indexed.
C12_Witness ==
    \E b \in failed : 1 < b /\ b < Len(books) /\ writer # <<>>

(***************************************************************************)
(* C13: the index is committed once, when every corpus of the list has     *)
(* been processed; a running service has exactly one commit behind it.     *)
(***************************************************************************)
C13_CommitOnce ==
    /\ [](pc = "serving" => commits = 1)
    /\ [][commits' # commits
             => /\ commits = 0
                /\ commits' = 1
                /\ corpus = Len(books) + 1
                /\ requests = <<>>]_vars

\* The service runs after one commit over indexed and skipped corpora.
C13_Witness ==
    /\ pc = "serving"
    /\ commits = 1
    /\ \E b, c \in 1..Len(books) : saves[b] /\ ~saves[c]

(***************************************************************************)
(* C15: once committed, the indexed documents never change, whatever the   *)
(* queries and the dispatcher do.                                          *)
(***************************************************************************)
C15_IndexFrozen == [][commits >= 1 => index' = index]_vars

\* Requests were answered, one with documents, on a committed index.
C15_Witness ==
    /\ commits = 1
    /\ \E r \in DOMAIN responses :
          responses[r].status = 200 /\ BodyDocs(responses[r].body) # <<>>

(***************************************************************************)
(* C16: the committed index holds exactly one document per record of every *)
(* corpus with save = true and no other; its fields are the corpus path,   *)
(* the document reference and the record's values, and a result carries    *)
(* them unchanged.                                                         *)
(***************************************************************************)
C16_IndexContents ==
    commits >= 1
       => /\ \A b \in 1..Len(books), j \in 1..Len(DocRefs) :
                saves[b]
                   => /\ Cardinality(OfRecord(index, b, j)) = 1
                      /\ \A a \in OfRecord(index, b, j) :
                            /\ index[a].title = DocFields(b, j).title
                            /\ index[a].breadcrumbs = DocFields(b, j).breadcrumbs
                            /\ index[a].body = DocFields(b, j).body
          /\ \A a \in 1..Len(index) :
                \E b \in 1..Len(books), j \in 1..Len(DocRefs) :
                   saves[b] /\ a \in OfRecord(index, b, j)
          /\ \A r \in Succeeded :
                \A i \in 1..Len(BodyDocs(responses[r].body)) :
                   \E b \in 1..Len(books), j \in 1..Len(DocRefs) :
                      /\ saves[b]
                      /\ BodyDocs(responses[r].body)[i]
                            = ToJson([book        |-> books[b],
                                      section     |-> DocRefs[j],
                                      title       |-> DocFields(b, j).title,
                                      breadcrumbs |-> DocFields(b, j).breadcrumbs,
                                      body        |-> DocFields(b, j).body])

\* A result with documents, from an index built with a skipped corpus.
C16_Witness ==
    /\ \E b \in 1..Len(books) : ~saves[b]
    /\ \E r \in Succeeded : BodyDocs(responses[r].body) # <<>>

(***************************************************************************)
(* C17: the pool exists, and a SearchQuery is handled, only after every    *)
(* corpus was processed, the index committed and the searchers loaded.     *)
(***************************************************************************)
C17_BuildBeforeServe ==
    /\ (idle # EmptyBag \/ busy # <<>>) => BuildFinished
    /\ (requests # <<>> \/ mailbox # <<>> \/ replies # <<>> \/ responses # <<>>)
          => BuildFinished /\ pc = "serving"

\* A worker is executing a query.
C17_Witness == busy # <<>> /\ pc = "serving"

(***************************************************************************)
(* C14: a worker executes one query at a time, so at most 8 executions are *)
(* in progress; a query starts only when fewer than 8 are in progress, and *)
(* it is the one at the head of the queue.                                 *)
(***************************************************************************)
C14_OneQueryPerWorker ==
    /\ [](Cardinality(DOMAIN busy) + BagCardinality(idle) = 8)
    /\ [](Cardinality(DOMAIN busy) <= 8)
    /\ [][\A r \in DOMAIN busy' \ DOMAIN busy :
             /\ Cardinality(DOMAIN busy) < 8
             /\ mailbox # <<>>
             /\ r = Head(mailbox)]_vars

\* All 8 workers execute a query and another query waits in the queue.
C14_Witness == Cardinality(DOMAIN busy) = 8 /\ Len(mailbox) >= 1

(***************************************************************************)
(* C18: for a successful query whose collector yields n >= 1 documents the *)
(* body is "[", the n serialized documents in collector order with a comma *)
(* between two of them and none after the last, then "]\n".                *)
(***************************************************************************)
C18_BodyShape ==
    /\ \A r \in DOMAIN busy :
          LET out  == Handle(index, busy[r], requests[r].param.query, NoFailure)
              docs == Docs(out.collector)
              n    == Len(docs)
              body == out.result.body
          IN  (out.result.kind = "Ok" /\ n >= 1)
                 => /\ Len(body) = 2 * n + 2
                    /\ body[1] = "["
                    /\ \A i \in 1..n : body[2 * i] = ToJson(index[docs[i]])
                    /\ \A i \in 1..(n - 1) : body[2 * i + 1] = ","
                    /\ body[2 * n + 1] = "]"
                    /\ body[2 * n + 2] = "\n"
    /\ \A r \in Succeeded :
          LET body == responses[r].body
              n    == Len(BodyDocs(body))
          IN  n >= 1
                 => /\ Len(body) = 2 * n + 2
                    /\ body[1] = "["
                    /\ \A i \in 1..n : IsDocJson(body[2 * i])
                    /\ \A i \in 1..(n - 1) : body[2 * i + 1] = ","
                    /\ body[2 * n + 1] = "]"
                    /\ body[2 * n + 2] = "\n"

\* A request was answered 200 with several documents.
C18_Witness == \E r \in Succeeded : Len(BodyDocs(responses[r].body)) >= 2

(***************************************************************************)
(* C19: a request without the parameter is answered at once, without a     *)
(* message to the pool; a response, once given, is never replaced; and,    *)
(* with fair workers, every request is eventually answered, a request     *)
(* with the parameter by 200 or 500, also with more than 8 requests        *)
(* pending: from some point on no request is left without its response.    *)
(***************************************************************************)
C19_EveryRequestAnswered ==
    /\ [](\A r \in DOMAIN requests :
             ~requests[r].param.present
                => /\ r \in DOMAIN responses
                   /\ r \notin DOMAIN busy
                   /\ r \notin DOMAIN replies
                   /\ \A i \in 1..Len(mailbox) : mailbox[i] # r)
    /\ [][\A r \in DOMAIN responses :
             r \in DOMAIN responses' /\ responses'[r] = responses[r]]_vars
    /\ [](\A r \in DOMAIN responses :
             requests[r].param.present
                => responses[r].status \in {StatusOk, StatusInternalServerError})
    /\ <>[](Pending = {})

\* More than 8 requests are pending and every worker is busy.
C19_Witness == Cardinality(Pending) > 8 /\ idle = EmptyBag

====
